---- MODULE Spec2Model ----
(***************************************************************************)
(* Access control, collaboration lifecycle and activity log of the         *)
(* academic project tracker (models.py, routes.py, utils.py, forms.py).    *)
(* A table whose rows are never deleted is a sequence of rows, the primary  *)
(* key being the index; a table with deletions is a function from the      *)
(* primary keys of its rows, the keys coming from a sequence never reused.  *)
(***************************************************************************)
EXTENDS Integers, Sequences, FiniteSets, TLC

\* ---------------------------------------------------------------- bounds
MaxUsers == 2
MaxProjects == 1
MaxLog == 4
MaxFiles == 1
MaxComments == 1
MaxTasks == 1
MaxNotes == 1
MaxSessions == 1
\* requests being served at the same time
MaxRequests == 2

\* ---------------------------------------------------------------- inputs
\* An email is a sequence of characters.
EmailInputs == { <<"a", "x">>, <<"b", "x">>, <<"B", "X">>, <<"c">> }
TitleInputs == { "", "T" }
RoleInputs == { "collaborator", "viewer", "owner" }

\* column value of a NULL / None
NULL == 0

\* app.config['MAX_CONTENT_LENGTH'], in bytes
MAX_CONTENT_LENGTH == 16 * 1024 * 1024

\* app.config['ALLOWED_EXTENSIONS']; a file name is a sequence of characters
ALLOWED_EXTENSIONS ==
    { <<"t","x","t">>, <<"p","d","f">>, <<"p","n","g">>, <<"j","p","g">>,
      <<"j","p","e","g">>, <<"g","i","f">>, <<"d","o","c">>, <<"d","o","c","x">>,
      <<"p","p","t">>, <<"p","p","t","x">>, <<"x","l","s">>, <<"x","l","s","x">>,
      <<"z","i","p">>, <<"r","a","r">>, <<"p","y">>, <<"j","s">>,
      <<"h","t","m","l">>, <<"c","s","s">> }

\* the extensions FileUploadForm hands to FileAllowed
FileAllowed_upload_set ==
    { <<"t","x","t">>, <<"p","d","f">>, <<"p","n","g">>, <<"j","p","g">>,
      <<"j","p","e","g">>, <<"g","i","f">>, <<"d","o","c">>, <<"d","o","c","x">>,
      <<"p","p","t">>, <<"p","p","t","x">>, <<"x","l","s">>, <<"x","l","s","x">>,
      <<"z","i","p">>, <<"r","a","r">>, <<"p","y">>, <<"j","s">>,
      <<"h","t","m","l">>, <<"c","s","s">> }

\* the characters secure_filename keeps of the ones the inputs are made of
SafeChars == { "a", "d", "e", "f", "g", "i", "k", "n", "p", "q", "r", "s", "x", "y",
               "D", "E", "F", "G", "N", "P", ".", "_", "-" }

\* An upload: the file name the client sent, the content type it declared, the
\* number of bytes of the file, the Content-Length of the whole request, and
\* whether the bytes are an image PIL can open.
\* r.pdf, i.PNG (an image, and not one), .pdf, s.exe, a.py.x, r (no extension), no file name,
\* a file that fills the request limit to the byte, one of 16 MiB, one of 20 MiB
UploadInputs ==
    { [ filename |-> <<"r", ".", "p", "d", "f">>, content_type |-> "application/pdf",
        size |-> 500000, content_length |-> 500200, image |-> FALSE ],
      [ filename |-> <<"i", ".", "P", "N", "G">>, content_type |-> "image/png",
        size |-> 500000, content_length |-> 500200, image |-> TRUE ],
      [ filename |-> <<"i", ".", "P", "N", "G">>, content_type |-> "image/png",
        size |-> 500000, content_length |-> 500200, image |-> FALSE ],
      [ filename |-> <<".", "p", "d", "f">>, content_type |-> "",
        size |-> 500000, content_length |-> 500200, image |-> FALSE ],
      [ filename |-> <<"s", ".", "e", "x", "e">>, content_type |-> "application/pdf",
        size |-> 500000, content_length |-> 500200, image |-> FALSE ],
      [ filename |-> <<"a", ".", "p", "y", ".", "x">>, content_type |-> "",
        size |-> 500000, content_length |-> 500200, image |-> FALSE ],
      [ filename |-> <<"r">>, content_type |-> "application/pdf",
        size |-> 500000, content_length |-> 500200, image |-> FALSE ],
      [ filename |-> << >>, content_type |-> "",
        size |-> 0, content_length |-> 200, image |-> FALSE ],
      [ filename |-> <<"r", ".", "p", "d", "f">>, content_type |-> "application/pdf",
        size |-> 16777016, content_length |-> 16777216, image |-> FALSE ],
      [ filename |-> <<"r", ".", "p", "d", "f">>, content_type |-> "application/pdf",
        size |-> 16777216, content_length |-> 16777416, image |-> FALSE ],
      [ filename |-> <<"r", ".", "p", "d", "f">>, content_type |-> "application/pdf",
        size |-> 20971520, content_length |-> 20971720, image |-> FALSE ] }

\* what secrets.token_urlsafe(16) can return
TokenInputs == { <<"k">> }

\* ---------------------------------------------------------------- state
\* users, projects, collaborators, activity: the tables of models.py
\* current_user: the id of the logged-in user of the session, NULL when anonymous
\* now: datetime.utcnow(), a logical clock that advances at each stamp
\* response: what the last request returned (flashed message, redirect target)
\* files, comments, tasks, notes, study_sessions: further tables of models.py
\* storage: the upload folder, each stored path with the number of bytes under it
\* last_id: the last primary key handed out for each table with deletions
VARIABLES users, projects, collaborators, activity, current_user, now, response,
          files, storage, comments, tasks, notes, study_sessions, last_id, requests

vars == <<users, projects, collaborators, activity, current_user, now, response,
          files, storage, comments, tasks, notes, study_sessions, last_id, requests>>

\* the tables and the folder that hold what projects contain
content == <<files, storage, comments, tasks, notes, study_sessions>>

\* table t with row r stored under primary key id, and with the rows of ids removed
Insert(t, id, r) == [ k \in DOMAIN t \cup {id} |-> IF k = id THEN r ELSE t[k] ]
Remove(t, ids) == [ k \in DOMAIN t \ ids |-> t[k] ]

\* str.lower() on one character
LowerChar(c) ==
    CASE c = "A" -> "a"
      [] c = "B" -> "b"
      [] c = "C" -> "c"
      [] c = "X" -> "x"
      [] c = "T" -> "t"
      [] c = "D" -> "d"
      [] c = "E" -> "e"
      [] c = "F" -> "f"
      [] c = "G" -> "g"
      [] c = "N" -> "n"
      [] c = "P" -> "p"
      [] OTHER -> c

\* str.lower()
Lower(s) == [i \in DOMAIN s |-> LowerChar(s[i])]

Min(S) == CHOOSE m \in S : \A n \in S : m <= n

\* User.query.filter_by(email=e).first(): the id of the row, NULL when none
FindUserByEmail(e) ==
    LET hits == { i \in DOMAIN users : users[i].email = e }
    IN  IF hits = {} THEN NULL ELSE Min(hits)

\* the rows behind the Project.collaborators backref, in primary key order
ProjectCollaborators(p) ==
    SelectSeq(collaborators, LAMBDA c : c.project_id = p)

\* can_user_access without its test of the row's status
can_user_access_any_status(p, u) ==
    IF projects[p].user_id = u
    THEN TRUE
    ELSE \E i \in DOMAIN ProjectCollaborators(p) :
            ProjectCollaborators(p)[i].user_id = u

can_user_access(p, u) ==
    IF projects[p].user_id = u
    THEN TRUE
    ELSE \E i \in DOMAIN ProjectCollaborators(p) :
            /\ ProjectCollaborators(p)[i].user_id = u
            /\ ProjectCollaborators(p)[i].status = "accepted"

\* can_user_edit without its test of the row's role
can_user_edit_any_role(p, u) ==
    IF projects[p].user_id = u
    THEN TRUE
    ELSE LET cs == ProjectCollaborators(p)
             mine == { i \in DOMAIN cs : cs[i].user_id = u }
         IN  IF mine = {}
             THEN FALSE
             ELSE cs[Min(mine)].status = "accepted"

can_user_edit(p, u) ==
    IF projects[p].user_id = u
    THEN TRUE
    ELSE LET cs == ProjectCollaborators(p)
             mine == { i \in DOMAIN cs : cs[i].user_id = u }
         IN  IF mine = {}
             THEN FALSE
             ELSE /\ cs[Min(mine)].status = "accepted"
                  /\ cs[Min(mine)].role \in { "owner", "collaborator" }

\* get_collaborators without its test of the row's status
get_collaborators_any_status(p) ==
    << [ user |-> projects[p].user_id, role |-> "owner", status |-> "accepted" ] >>
    \o [ i \in DOMAIN ProjectCollaborators(p) |->
            [ user |-> ProjectCollaborators(p)[i].user_id,
              role |-> ProjectCollaborators(p)[i].role,
              status |-> ProjectCollaborators(p)[i].status ] ]

get_collaborators(p) ==
    LET accepted == SelectSeq(ProjectCollaborators(p), LAMBDA c : c.status = "accepted")
    IN  << [ user |-> projects[p].user_id, role |-> "owner", status |-> "accepted" ] >>
        \o [ i \in DOMAIN accepted |->
                [ user |-> accepted[i].user_id,
                  role |-> accepted[i].role,
                  status |-> accepted[i].status ] ]

\* the row log_activity adds
ActivityRow(user_id, action, entity_type, entity_id, description, project_id) ==
    [ user_id |-> user_id, action |-> action, entity_type |-> entity_type,
      entity_id |-> entity_id, description |-> description,
      project_id |-> project_id ]

\* the activity table after log_activity
log_activity(user_id, action, entity_type, entity_id, description, project_id) ==
    Append(activity,
           ActivityRow(user_id, action, entity_type, entity_id, description, project_id))

\* what a handler returns: the flashed message and the redirect target
Redirect(msg, endpoint, id) == [ flash |-> msg, endpoint |-> endpoint, id |-> id ]
NotFound404 == [ flash |-> "", endpoint |-> "404", id |-> NULL ]

\* a worker that is serving no request
Idle ==
    [ pc |-> "idle", handler |-> "", user_id |-> NULL, project_id |-> NULL,
      entity_id |-> NULL, role |-> "", description |-> << >> ]

Init ==
    /\ users = << >>
    /\ projects = << >>
    /\ collaborators = << >>
    /\ activity = << >>
    /\ current_user = NULL
    /\ now = 1
    /\ response = Redirect("", "index", NULL)
    /\ files = << >>
    /\ storage = << >>
    /\ comments = << >>
    /\ tasks = << >>
    /\ notes = << >>
    /\ study_sessions = << >>
    /\ last_id = [ project |-> 0, file |-> 0, task |-> 0, note |-> 0, session |-> 0 ]
    /\ requests = [ r \in 1 .. MaxRequests |-> Idle ]

\* ---------------------------------------------------------------- auth
register(email) ==
    /\ current_user = NULL
    /\ IF FindUserByEmail(Lower(email)) # NULL
       THEN /\ response' = Redirect("This email is already registered.", "register", NULL)
            /\ UNCHANGED users
       ELSE /\ Len(users) < MaxUsers
            /\ users' = Append(users, [ email |-> Lower(email) ])
            /\ response' = Redirect("Registration successful!", "login", NULL)
    /\ UNCHANGED <<requests, projects, collaborators, activity, current_user, now, content, last_id>>

login(email, password_ok) ==
    /\ current_user = NULL
    /\ IF FindUserByEmail(Lower(email)) # NULL /\ password_ok
       THEN /\ current_user' = FindUserByEmail(Lower(email))
            /\ response' = Redirect("Welcome back!", "index", NULL)
       ELSE /\ response' = Redirect("Invalid email or password.", "login", NULL)
            /\ UNCHANGED current_user
    /\ UNCHANGED <<requests, users, projects, collaborators, activity, now, content, last_id>>

logout ==
    /\ current_user # NULL
    /\ current_user' = NULL
    /\ response' = Redirect("You have been logged out.", "index", NULL)
    /\ UNCHANGED <<requests, users, projects, collaborators, activity, now, content, last_id>>

\* ---------------------------------------------------------------- projects
\* Every handler below is @login_required: it runs for the logged-in user only.
\* MaxProjects and MaxLog cap the tables in the guards of the inserting branches.
new_project(title) ==
    /\ current_user # NULL
    /\ IF title = ""
       THEN /\ response' = Redirect("Project title is required.", "new_project", NULL)
            /\ UNCHANGED <<projects, activity, last_id>>
       ELSE /\ last_id.project < MaxProjects
            /\ Len(activity) < MaxLog
            /\ last_id' = [ last_id EXCEPT !.project = @ + 1 ]
            /\ projects' = Insert(projects, last_id.project + 1,
                                  [ user_id |-> current_user, title |-> title ])
            /\ activity' = log_activity(current_user, "created", "project",
                                        last_id.project + 1, <<"Created project", title>>,
                                        last_id.project + 1)
            /\ response' = Redirect("Project created successfully!", "project_detail",
                                    last_id.project + 1)
    /\ UNCHANGED <<requests, users, collaborators, current_user, now, content>>

\* ---------------------------------------------------------------- collaboration
\* CollaboratorInviteForm.validate_on_submit(): a non-empty email and a role
\* among the SelectField's choices
CollaboratorInviteForm_validate(email, role) ==
    /\ Len(email) > 0
    /\ role \in { "collaborator", "viewer" }

\* the caller test of invite_collaborator, were it can_user_edit
invite_caller_can_edit(p) == can_user_edit(p, current_user)

\* invite_collaborator's test of the caller: project.user_id != current_user.id
invite_caller_is_owner(p) == projects[p].user_id = current_user

\* the lookup of the invited user, were the filter on the email left out
invite_find_user_unfiltered(email) == IF DOMAIN users = {} THEN NULL ELSE Min(DOMAIN users)

\* invite_collaborator's lookup of the invited user from the form's email
invite_find_user(email) == FindUserByEmail(email)

\* the existing-row lookup, were it to skip declined rows
existing_collaborator_not_declined(p, u) ==
    LET hits == { i \in DOMAIN collaborators :
                    /\ collaborators[i].project_id = p
                    /\ collaborators[i].user_id = u
                    /\ collaborators[i].status # "declined" }
    IN  IF hits = {} THEN NULL ELSE Min(hits)

\* ProjectCollaborator.query.filter_by(project_id=p, user_id=u).first()
existing_collaborator(p, u) ==
    LET hits == { i \in DOMAIN collaborators :
                    collaborators[i].project_id = p /\ collaborators[i].user_id = u }
    IN  IF hits = {} THEN NULL ELSE Min(hits)

\* UniqueConstraint('project_id', 'user_id') on a table of collaborator rows
unique_project_collaborator(rows) ==
    \A i, j \in DOMAIN rows :
        (rows[i].project_id = rows[j].project_id /\ rows[i].user_id = rows[j].user_id)
            => i = j

\* the row invite_collaborator inserts
NewCollaboration(p, u, role) ==
    [ project_id |-> p, user_id |-> u, role |-> role, status |-> "pending",
      accepted_at |-> NULL ]

invite_collaborator(p, email, role) ==
    /\ current_user # NULL
    /\ IF p \notin DOMAIN projects
       THEN /\ response' = NotFound404
            /\ UNCHANGED <<collaborators, activity>>
       ELSE IF ~invite_caller_is_owner(p)
       THEN /\ response' = Redirect("Only the project owner can invite collaborators.",
                                    "project_detail", p)
            /\ UNCHANGED <<collaborators, activity>>
       ELSE IF ~CollaboratorInviteForm_validate(email, role)
       THEN /\ response' = Redirect("", "project_detail", p)
            /\ UNCHANGED <<collaborators, activity>>
       ELSE IF invite_find_user(email) = NULL
       THEN /\ response' = Redirect("User with this email address not found.",
                                    "project_detail", p)
            /\ UNCHANGED <<collaborators, activity>>
       ELSE IF existing_collaborator(p, invite_find_user(email)) # NULL
       THEN /\ response' = Redirect("This user is already a collaborator on this project.",
                                    "project_detail", p)
            /\ UNCHANGED <<collaborators, activity>>
       ELSE IF ~unique_project_collaborator(
                    Append(collaborators, NewCollaboration(p, invite_find_user(email), role)))
       THEN \* the commit raises IntegrityError, nothing catches it
            /\ response' = [ flash |-> "", endpoint |-> "500", id |-> NULL ]
            /\ UNCHANGED <<collaborators, activity>>
       ELSE /\ Len(activity) < MaxLog
            /\ collaborators' =
                    Append(collaborators, NewCollaboration(p, invite_find_user(email), role))
            /\ activity' = log_activity(current_user, "invited", "collaborator",
                                        invite_find_user(email),
                                        <<"Invited", users[invite_find_user(email)].email,
                                          "as", role>>,
                                        p)
            /\ response' = Redirect("Invitation sent!", "project_detail", p)
    /\ UNCHANGED <<requests, users, projects, current_user, now, content, last_id>>

\* the caller test of accept_collaboration, were the project owner let through
accept_caller_is_invited_or_owner(c) ==
    \/ collaborators[c].user_id = current_user
    \/ projects[collaborators[c].project_id].user_id = current_user

\* accept_collaboration's test of the caller: collaboration.user_id != current_user.id
accept_caller_is_invited(c) == collaborators[c].user_id = current_user

\* decline_collaboration's test of the caller
decline_caller_is_invited(c) == collaborators[c].user_id = current_user

accept_collaboration(c) ==
    /\ current_user # NULL
    /\ IF c \notin DOMAIN collaborators
       THEN /\ response' = NotFound404
            /\ UNCHANGED <<collaborators, activity, now>>
       ELSE IF ~accept_caller_is_invited(c)
       THEN /\ response' = Redirect("You can only accept your own invitations.",
                                    "index", NULL)
            /\ UNCHANGED <<collaborators, activity, now>>
       ELSE /\ Len(activity) < MaxLog
            /\ collaborators' =
                    [ collaborators EXCEPT ![c].status = "accepted",
                                           ![c].accepted_at = now ]
            /\ now' = now + 1
            /\ activity' = log_activity(current_user, "accepted", "collaboration", c,
                                        <<"Accepted collaboration invitation">>,
                                        collaborators[c].project_id)
            /\ response' = Redirect("Collaboration invitation accepted!",
                                    "project_detail", collaborators[c].project_id)
    /\ UNCHANGED <<requests, users, projects, current_user, content, last_id>>

decline_collaboration(c) ==
    /\ current_user # NULL
    /\ IF c \notin DOMAIN collaborators
       THEN /\ response' = NotFound404
            /\ UNCHANGED collaborators
       ELSE IF ~decline_caller_is_invited(c)
       THEN /\ response' = Redirect("You can only decline your own invitations.",
                                    "index", NULL)
            /\ UNCHANGED collaborators
       ELSE /\ collaborators' = [ collaborators EXCEPT ![c].status = "declined" ]
            /\ response' = Redirect("Collaboration invitation declined.", "index", NULL)
    /\ UNCHANGED <<requests, users, projects, activity, current_user, now, content, last_id>>

\* ---------------------------------------------------------------- files
\* '.' in filename
HasDot(f) == \E i \in DOMAIN f : f[i] = "."

\* filename.rsplit('.', 1)[1] of a name with a dot: what follows the last dot
AfterLastDot(f) ==
    LET last == CHOOSE i \in DOMAIN f :
                    f[i] = "." /\ \A j \in DOMAIN f : f[j] = "." => j <= i
    IN  SubSeq(f, last + 1, Len(f))

\* str.endswith
EndsWith(f, suffix) ==
    /\ Len(suffix) <= Len(f)
    /\ SubSeq(f, Len(f) - Len(suffix) + 1, Len(f)) = suffix

allowed_file(filename) ==
    HasDot(filename) /\ Lower(AfterLastDot(filename)) \in ALLOWED_EXTENSIONS

\* flask_wtf FileRequired and FileAllowed on the file field: a file with a name,
\* the lower-cased name ending in '.' + one of the extensions
FileUploadForm_validate(up) ==
    /\ up.filename # << >>
    /\ \E x \in FileAllowed_upload_set : EndsWith(Lower(up.filename), <<".">> \o x)

\* str.strip('._')
RECURSIVE StripLeft(_)
StripLeft(f) ==
    IF f # << >> /\ Head(f) \in { ".", "_" } THEN StripLeft(Tail(f)) ELSE f
RECURSIVE StripRight(_)
StripRight(f) ==
    IF f # << >> /\ f[Len(f)] \in { ".", "_" }
    THEN StripRight(SubSeq(f, 1, Len(f) - 1))
    ELSE f

\* werkzeug secure_filename: path separators and blanks become '_', characters
\* outside [A-Za-z0-9_.-] go, dots and underscores at both ends are stripped
secure_filename(f) ==
    LET sep == [ i \in DOMAIN f |-> IF f[i] \in { "/", " " } THEN "_" ELSE f[i] ]
    IN  StripRight(StripLeft(SelectSeq(sep, LAMBDA c : c \in SafeChars)))

generate_filename(original_filename, token) ==
    LET ext == IF HasDot(original_filename)
               THEN Lower(AfterLastDot(original_filename))
               ELSE << >>
    IN  IF ext # << >> THEN token \o <<".">> \o ext ELSE token

\* os.path.join(UPLOAD_FOLDER, f'project_{project_id}', unique_filename)
FilePath(project_id, unique_filename) == << "uploads", project_id, unique_filename >>

\* create_thumbnail's path: the stored name with _thumb before its extension
ThumbPath(project_id, unique_filename) ==
    << "uploads", project_id,
       IF HasDot(unique_filename)
       THEN SubSeq(unique_filename, 1, Len(unique_filename)
                                       - Len(AfterLastDot(unique_filename)) - 1)
            \o <<"_thumb", ".">> \o AfterLastDot(unique_filename)
       ELSE unique_filename \o <<"_thumb">> >>

\* the dict save_uploaded_file returns for a file it has saved
file_info(up, project_id, token) ==
    [ result |-> "saved",
      filename |-> generate_filename(secure_filename(up.filename), token),
      original_filename |-> secure_filename(up.filename),
      file_path |-> FilePath(project_id,
                             generate_filename(secure_filename(up.filename), token)),
      file_size |-> up.size,
      file_type |-> IF up.content_type = ""
                    THEN "application/octet-stream"
                    ELSE up.content_type ]

\* save_uploaded_file, were a failure of create_thumbnail to escape it
save_uploaded_file_thumbnail_required(up, project_id, token) ==
    IF up.filename = << >>
    THEN [ result |-> "None" ]
    ELSE IF ~allowed_file(up.filename)
    THEN [ result |-> "ValueError" ]
    ELSE IF up.content_type \in { "image/png" } /\ ~up.image
    THEN [ result |-> "Exception" ]
    ELSE file_info(up, project_id, token)

\* save_uploaded_file: None, the ValueError, or the dict it returns
save_uploaded_file(up, project_id, token) ==
    IF up.filename = << >>
    THEN [ result |-> "None" ]
    ELSE IF ~allowed_file(up.filename)
    THEN [ result |-> "ValueError" ]
    ELSE file_info(up, project_id, token)

\* the folder after save_uploaded_file: the bytes under file_path and, for an image
\* whose thumbnail could be made, the thumbnail next to it
saved_storage(info, project_id, image) ==
    LET saved == Insert(storage, info.file_path, info.file_size)
    IN  IF info.file_type \in { "image/png" } /\ image
        THEN Insert(saved, ThumbPath(project_id, info.filename), 1)
        ELSE saved

\* werkzeug's test of the request against MAX_CONTENT_LENGTH, were it never to fire
request_never_too_large(up) == FALSE

\* werkzeug's test of the request against MAX_CONTENT_LENGTH when the form is read
request_too_large(up) == up.content_length > MAX_CONTENT_LENGTH

\* the path through upload_file, were the file type tested nowhere
upload_outcome_any_type(up, project_id, token) ==
    IF request_too_large(up) THEN [ result |-> "413" ]
    ELSE IF up.filename = << >> THEN [ result |-> "invalid" ]
    ELSE file_info(up, project_id, token)

\* the path an upload of a user with edit rights takes through upload_file
upload_outcome(up, project_id, token) ==
    IF request_too_large(up) THEN [ result |-> "413" ]
    ELSE IF ~FileUploadForm_validate(up) THEN [ result |-> "invalid" ]
    ELSE save_uploaded_file(up, project_id, token)

\* MaxFiles and MaxLog cap the tables in the guard of the inserting branch.
\* the row upload_file inserts
NewProjectFile(info, p, u) ==
    [ filename |-> info.filename,
      original_filename |-> info.original_filename,
      file_size |-> info.file_size,
      file_type |-> info.file_type,
      file_path |-> info.file_path,
      project_id |-> p,
      uploaded_by |-> u ]

upload_file(p, up, token) ==
    /\ current_user # NULL
    /\ IF p \notin DOMAIN projects
       THEN /\ response' = NotFound404
            /\ UNCHANGED <<files, storage, activity, last_id>>
       ELSE IF ~can_user_edit(p, current_user)
       THEN /\ response' =
                  Redirect("You do not have permission to upload files to this project.",
                           "project_detail", p)
            /\ UNCHANGED <<files, storage, activity, last_id>>
       ELSE LET info == upload_outcome(up, p, token)
            IN  CASE info.result = "413" ->
                       /\ response' = [ flash |-> "", endpoint |-> "413", id |-> NULL ]
                       /\ UNCHANGED <<files, storage, activity, last_id>>
                  [] info.result = "invalid" ->
                       /\ response' = Redirect("", "project_detail", p)
                       /\ UNCHANGED <<files, storage, activity, last_id>>
                  [] info.result = "None" ->
                       /\ response' = Redirect("File upload failed.", "project_detail", p)
                       /\ UNCHANGED <<files, storage, activity, last_id>>
                  [] info.result = "ValueError" ->
                       /\ response' = Redirect("File type not allowed", "project_detail", p)
                       /\ UNCHANGED <<files, storage, activity, last_id>>
                  [] info.result = "Exception" ->
                       \* except Exception: what save_uploaded_file lets escape
                       /\ response' = Redirect("An error occurred while uploading the file.",
                                               "project_detail", p)
                       /\ UNCHANGED <<files, storage, activity, last_id>>
                  [] info.result = "saved" ->
                       /\ last_id.file < MaxFiles
                       /\ Len(activity) < MaxLog
                       /\ storage' = saved_storage(info, p, up.image)
                       /\ last_id' = [ last_id EXCEPT !.file = @ + 1 ]
                       /\ files' = Insert(files, last_id.file + 1,
                                          NewProjectFile(info, p, current_user))
                       /\ activity' = log_activity(current_user, "uploaded", "file",
                                                   last_id.file + 1,
                                                   <<"Uploaded file", info.original_filename>>,
                                                   p)
                       /\ response' = Redirect("File uploaded successfully!",
                                               "project_detail", p)
    /\ UNCHANGED <<requests, users, projects, collaborators, current_user, now,
                   comments, tasks, notes, study_sessions>>

\* the lookup of the file, were it by the id of the file alone
file_by_id(f, p) == f \in DOMAIN files

\* ProjectFile.query.filter_by(id=file_id, project_id=project_id).first_or_404()
\* finds a row
file_of_project(f, p) == f \in DOMAIN files /\ files[f].project_id = p

download_file(p, f) ==
    /\ current_user # NULL
    /\ IF p \notin DOMAIN projects
       THEN response' = NotFound404
       ELSE IF ~can_user_access(p, current_user)
       THEN response' = Redirect("You do not have permission to access this project.",
                                 "index", NULL)
       ELSE IF ~file_of_project(f, p)
       THEN response' = NotFound404
       ELSE IF files[f].file_path \notin DOMAIN storage
       THEN response' = Redirect("File not found.", "project_detail", p)
       ELSE response' = [ flash |-> "", endpoint |-> "send_file", id |-> f ]
    /\ UNCHANGED <<requests, users, projects, collaborators, activity, current_user, now,
                   content, last_id>>

\* delete_file's os.path.exists, were the file taken to be there without a look
os_path_exists_unchecked(path) == TRUE

\* os.path.exists(file.file_path)
os_path_exists(path) == path \in DOMAIN storage

\* whether os.remove(path) raises: it does on a path that is not there, and
\* remove_ok tells whether it succeeds on one that is
os_remove_raises(path, remove_ok) == path \notin DOMAIN storage \/ ~remove_ok

delete_file(p, f, remove_ok) ==
    /\ current_user # NULL
    /\ IF p \notin DOMAIN projects
       THEN /\ response' = NotFound404
            /\ UNCHANGED <<files, storage, activity>>
       ELSE IF ~can_user_edit(p, current_user)
       THEN /\ response' =
                  Redirect("You do not have permission to delete files from this project.",
                           "project_detail", p)
            /\ UNCHANGED <<files, storage, activity>>
       ELSE IF ~file_of_project(f, p)
       THEN /\ response' = NotFound404
            /\ UNCHANGED <<files, storage, activity>>
       ELSE IF /\ os_path_exists(files[f].file_path)
               /\ os_remove_raises(files[f].file_path, remove_ok)
       THEN /\ response' = Redirect("An error occurred while deleting the file.",
                                    "project_detail", p)
            /\ UNCHANGED <<files, storage, activity>>
       ELSE /\ Len(activity) < MaxLog
            /\ storage' = Remove(storage, { files[f].file_path })
            /\ files' = Remove(files, { f })
            /\ activity' = log_activity(current_user, "deleted", "file", f,
                                        <<"Deleted file", files[f].original_filename>>, p)
            /\ response' = Redirect("File deleted successfully!", "project_detail", p)
    /\ UNCHANGED <<requests, users, projects, collaborators, current_user, now,
                   comments, tasks, notes, study_sessions, last_id>>

\* The upload folder is plain disk outside the database: a stored file can go
\* missing while its row stays, the case delete_file's os.path.exists is there for.
upload_folder_loses(path) ==
    /\ path \in DOMAIN storage
    /\ storage' = Remove(storage, { path })
    /\ UNCHANGED <<requests, users, projects, collaborators, activity, current_user, now, response,
                   files, comments, tasks, notes, study_sessions, last_id>>

\* ---------------------------------------------------------------- project content
project_detail(p) ==
    /\ current_user # NULL
    /\ IF p \notin DOMAIN projects
       THEN response' = NotFound404
       ELSE IF ~can_user_access(p, current_user)
       THEN response' = Redirect("You do not have permission to view this project.",
                                 "index", NULL)
       ELSE response' = [ flash |-> "", endpoint |-> "project_detail.html", id |-> p ]
    /\ UNCHANGED <<requests, users, projects, collaborators, activity, current_user, now,
                   content, last_id>>

\* the lookup of the handlers below, were it to go by can_user_edit
editable_project(p) == p \in DOMAIN projects /\ can_user_edit(p, current_user)

\* Project.query.filter_by(id=project_id, user_id=current_user.id).first(), the
\* lookup of the handlers below: the project when the caller owns it, else None
owned_project(p) == p \in DOMAIN projects /\ projects[p].user_id = current_user

\* the row of edit_project, were it to take the owner from the form as well
edited_project_and_owner(row, title) == [ row EXCEPT !.title = title, !.user_id = NULL ]

\* the row after edit_project's assignments
edited_project(row, title) == [ row EXCEPT !.title = title ]

edit_project(p, title) ==
    /\ current_user # NULL
    /\ IF ~owned_project(p)
       THEN /\ response' = Redirect("Project not found.", "index", NULL)
            /\ UNCHANGED <<projects, activity>>
       ELSE IF title = ""
       THEN /\ response' = [ flash |-> "Project title is required.",
                             endpoint |-> "project_form.html", id |-> p ]
            /\ UNCHANGED <<projects, activity>>
       ELSE /\ Len(activity) < MaxLog
            /\ projects' = [ projects EXCEPT ![p] = edited_project(@, title) ]
            /\ activity' = log_activity(current_user, "updated", "project", p,
                                        <<"Updated project", title>>, p)
            /\ response' = Redirect("Project updated successfully!", "project_detail", p)
    /\ UNCHANGED <<requests, users, collaborators, current_user, now, content, last_id>>

\* the rows of table t that relationship(..., cascade='all, delete-orphan') deletes
\* with project p
cascade_delete(t, p) == Remove(t, { k \in DOMAIN t : t[k].project_id = p })

\* what the delete of project p does to the rows behind a backref without cascade:
\* their project_id is set to NULL
backref_nullify(rows, p) ==
    [ i \in DOMAIN rows |->
        IF rows[i].project_id = p THEN [ rows[i] EXCEPT !.project_id = NULL ] ELSE rows[i] ]

\* ProjectCollaborator.project_id and ProjectComment.project_id are nullable=False:
\* the UPDATE that sets them to NULL raises IntegrityError
not_null_violated(rows) == \E i \in DOMAIN rows : rows[i].project_id = NULL

delete_project(p) ==
    /\ current_user # NULL
    /\ IF ~owned_project(p)
       THEN /\ response' = Redirect("Project not found.", "index", NULL)
            /\ UNCHANGED <<projects, activity, files, tasks, notes, study_sessions>>
       ELSE IF \/ not_null_violated(backref_nullify(collaborators, p))
               \/ not_null_violated(backref_nullify(comments, p))
       THEN \* the commit raises IntegrityError, nothing catches it
            /\ response' = [ flash |-> "", endpoint |-> "500", id |-> NULL ]
            /\ UNCHANGED <<projects, activity, files, tasks, notes, study_sessions>>
       ELSE /\ projects' = Remove(projects, { p })
            /\ tasks' = cascade_delete(tasks, p)
            /\ notes' = cascade_delete(notes, p)
            /\ study_sessions' = cascade_delete(study_sessions, p)
            /\ files' = cascade_delete(files, p)
            /\ activity' = backref_nullify(activity, p)
            /\ response' = Redirect("Project deleted successfully!", "index", NULL)
    /\ UNCHANGED <<requests, users, collaborators, current_user, now, storage, comments, last_id>>

new_task(p, title) ==
    /\ current_user # NULL
    /\ IF ~owned_project(p)
       THEN /\ response' = Redirect("Project not found.", "index", NULL)
            /\ UNCHANGED <<tasks, last_id>>
       ELSE IF title = ""
       THEN /\ response' = Redirect("Task title is required.", "project_detail", p)
            /\ UNCHANGED <<tasks, last_id>>
       ELSE /\ last_id.task < MaxTasks
            /\ last_id' = [ last_id EXCEPT !.task = @ + 1 ]
            /\ tasks' = Insert(tasks, last_id.task + 1, [ project_id |-> p, title |-> title ])
            /\ response' = Redirect("Task created successfully!", "project_detail", p)
    /\ UNCHANGED <<requests, users, projects, collaborators, activity, current_user, now,
                   files, storage, comments, notes, study_sessions>>

log_study_session(p, duration) ==
    /\ current_user # NULL
    /\ IF ~owned_project(p)
       THEN /\ response' = Redirect("Project not found.", "index", NULL)
            /\ UNCHANGED <<study_sessions, last_id>>
       ELSE IF duration <= 0
       THEN /\ response' = Redirect("Please enter a valid study duration.",
                                    "project_detail", p)
            /\ UNCHANGED <<study_sessions, last_id>>
       ELSE /\ last_id.session < MaxSessions
            /\ last_id' = [ last_id EXCEPT !.session = @ + 1 ]
            /\ study_sessions' = Insert(study_sessions, last_id.session + 1,
                                        [ project_id |-> p, user_id |-> current_user,
                                          duration_minutes |-> duration ])
            /\ response' = Redirect("Study session logged", "project_detail", p)
    /\ UNCHANGED <<requests, users, projects, collaborators, activity, current_user, now,
                   files, storage, comments, tasks, notes>>

add_project_note(p, text) ==
    /\ current_user # NULL
    /\ IF ~owned_project(p)
       THEN /\ response' = Redirect("Project not found.", "index", NULL)
            /\ UNCHANGED <<notes, last_id>>
       ELSE IF text = ""
       THEN /\ response' = Redirect("Note content is required.", "project_detail", p)
            /\ UNCHANGED <<notes, last_id>>
       ELSE /\ last_id.note < MaxNotes
            /\ last_id' = [ last_id EXCEPT !.note = @ + 1 ]
            /\ notes' = Insert(notes, last_id.note + 1, [ project_id |-> p, content |-> text ])
            /\ response' = Redirect("Note added successfully!", "project_detail", p)
    /\ UNCHANGED <<requests, users, projects, collaborators, activity, current_user, now,
                   files, storage, comments, tasks, study_sessions>>

\* CommentForm.validate_on_submit(): DataRequired on the content
CommentForm_validate(text) == text # ""

\* add_comment's test of the caller, were every logged-in user let through
comment_caller_logged_in(p) == current_user # NULL

\* add_comment's test of the caller: project.can_user_access(current_user)
comment_caller_can_access(p) == can_user_access(p, current_user)

add_comment(p, text) ==
    /\ current_user # NULL
    /\ IF p \notin DOMAIN projects
       THEN /\ response' = NotFound404
            /\ UNCHANGED <<comments, activity>>
       ELSE IF ~comment_caller_can_access(p)
       THEN /\ response' =
                  Redirect("You do not have permission to comment on this project.",
                           "project_detail", p)
            /\ UNCHANGED <<comments, activity>>
       ELSE IF ~CommentForm_validate(text)
       THEN /\ response' = Redirect("", "project_detail", p)
            /\ UNCHANGED <<comments, activity>>
       ELSE /\ Len(comments) < MaxComments
            /\ Len(activity) < MaxLog
            /\ comments' = Append(comments, [ project_id |-> p, user_id |-> current_user,
                                              content |-> text ])
            /\ activity' = log_activity(current_user, "commented", "project", p,
                                        <<"Added a comment">>, p)
            /\ response' = Redirect("Comment added successfully!", "project_detail", p)
    /\ UNCHANGED <<requests, users, projects, collaborators, current_user, now,
                   files, storage, tasks, notes, study_sessions, last_id>>

\* ---------------------------------------------------------------- search
\* the characters of a title, titles being strings of at most one character
TitleChars(t) == IF t = "" THEN << >> ELSE << t >>

\* column.ilike('%query%'): the text holds the query, letter case aside
ilike(text, query) ==
    \E i \in 0 .. (Len(text) - Len(query)) :
        SubSeq(Lower(text), i + 1, i + Len(query)) = Lower(query)

\* search's subquery, were the status of the collaboration left out of it
accessible_projects_any_status(u) ==
    { p \in DOMAIN projects :
        \/ projects[p].user_id = u
        \/ p \in { collaborators[i].project_id :
                     i \in { j \in DOMAIN collaborators : collaborators[j].user_id = u } } }

\* search's subquery accessible_projects: the projects the user owns and the ones
\* of the user's accepted ProjectCollaborator rows
accessible_projects(u) ==
    { p \in DOMAIN projects :
        \/ projects[p].user_id = u
        \/ p \in { collaborators[i].project_id :
                     i \in { j \in DOMAIN collaborators :
                               /\ collaborators[j].user_id = u
                               /\ collaborators[j].status = "accepted" } } }

\* the results dict of search for user u: ids of the projects, tasks and files found
search_results(u, query, filter_type) ==
    IF query = << >>
    THEN [ projects |-> {}, tasks |-> {}, files |-> {} ]
    ELSE [ projects |->
             IF filter_type \in { "all", "projects" }
             THEN { p \in DOMAIN projects :
                      /\ p \in accessible_projects(u)
                      /\ ilike(TitleChars(projects[p].title), query) }
             ELSE {},
           tasks |->
             IF filter_type \in { "all", "tasks" }
             THEN { t \in DOMAIN tasks :
                      /\ tasks[t].project_id \in accessible_projects(u)
                      /\ ilike(TitleChars(tasks[t].title), query) }
             ELSE {},
           files |->
             IF filter_type \in { "all", "files" }
             THEN { f \in DOMAIN files :
                      /\ files[f].project_id \in accessible_projects(u)
                      /\ ilike(files[f].original_filename, query) }
             ELSE {} ]

\* search renders search_results for the logged-in user and changes nothing
search(query, filter_type) ==
    /\ current_user # NULL
    /\ response' = [ flash |-> "", endpoint |-> "search.html", id |-> NULL ]
    /\ UNCHANGED <<requests, users, projects, collaborators, activity, current_user, now,
                   content, last_id>>

\* the ids a request can name: every existing row and one that does not exist
ProjectIds == 1 .. (last_id.project + 1)
CollaborationIds == 1 .. (Len(collaborators) + 1)
FileIds == 1 .. (last_id.file + 1)

Next ==
    \/ \E e \in EmailInputs : register(e)
    \/ \E e \in EmailInputs, ok \in BOOLEAN : login(e, ok)
    \/ logout
    \/ \E t \in TitleInputs : new_project(t)
    \/ \E p \in ProjectIds, e \in EmailInputs, r \in RoleInputs : invite_collaborator(p, e, r)
    \/ \E c \in CollaborationIds : accept_collaboration(c)
    \/ \E c \in CollaborationIds : decline_collaboration(c)

Spec == Init /\ [][Next]_vars

\* ---------------------------------------------------------------- files specification
\* The file handlers next to the handlers that give users their rights on a project.
\* Registration and the requests of Spec that are malformed (an unknown or upper-case
\* email, a wrong password, an empty title, a role outside the form's choices) are
\* left to Spec.
FilesEmailInputs == { <<"a", "x">>, <<"b", "x">> }
FilesRoleInputs == { "collaborator", "viewer" }

\* the state after two registrations, which Spec reaches
FilesInit ==
    /\ users = << [ email |-> <<"a", "x">> ], [ email |-> <<"b", "x">> ] >>
    /\ projects = << >>
    /\ collaborators = << >>
    /\ activity = << >>
    /\ current_user = NULL
    /\ now = 1
    /\ response = Redirect("Registration successful!", "login", NULL)
    /\ files = << >>
    /\ storage = << >>
    /\ comments = << >>
    /\ tasks = << >>
    /\ notes = << >>
    /\ study_sessions = << >>
    /\ last_id = [ project |-> 0, file |-> 0, task |-> 0, note |-> 0, session |-> 0 ]
    /\ requests = [ r \in 1 .. MaxRequests |-> Idle ]

FilesNext ==
    \/ \E e \in FilesEmailInputs : login(e, TRUE)
    \/ logout
    \/ new_project("T")
    \/ \E p \in ProjectIds, e \in FilesEmailInputs, r \in FilesRoleInputs :
          invite_collaborator(p, e, r)
    \/ \E c \in CollaborationIds : accept_collaboration(c)
    \/ \E c \in CollaborationIds : decline_collaboration(c)
    \/ \E p \in ProjectIds, up \in UploadInputs, token \in TokenInputs :
          upload_file(p, up, token)
    \/ \E p \in ProjectIds, f \in FileIds : download_file(p, f)
    \/ \E p \in ProjectIds, f \in FileIds, remove_ok \in BOOLEAN : delete_file(p, f, remove_ok)
    \/ \E path \in DOMAIN storage : upload_folder_loses(path)

SpecFiles == FilesInit /\ [][FilesNext]_vars

\* ---------------------------------------------------------------- project specification
\* Every handler that reads or changes what a project contains, next to the handlers
\* that give users their rights on it; one upload the form accepts and one it refuses.
\* The requests name existing projects: the 404 of an unknown id is left to Spec and
\* SpecFiles.
ProjectUploadInputs ==
    { up \in UploadInputs :
        /\ up.filename \in { <<"r", ".", "p", "d", "f">>, <<"s", ".", "e", "x", "e">> }
        /\ up.size = 500000 }
TextInputs == { "", "c" }
\* no query, one that the titles hold, one that the name of a pdf holds, one that
\* nothing holds
QueryInputs == { << >>, <<"t">>, <<"P", "D", "F">>, <<"q">> }
FilterInputs == { "all", "projects", "tasks", "files" }
DurationInputs == { 0, 30 }

ProjectNext ==
    \/ \E e \in FilesEmailInputs : login(e, TRUE)
    \/ logout
    \/ new_project("T")
    \/ \E p \in DOMAIN projects, e \in FilesEmailInputs, r \in FilesRoleInputs :
          invite_collaborator(p, e, r)
    \/ \E c \in CollaborationIds : accept_collaboration(c)
    \/ \E c \in CollaborationIds : decline_collaboration(c)
    \/ \E p \in DOMAIN projects : project_detail(p)
    \/ \E p \in DOMAIN projects, t \in TitleInputs : edit_project(p, t)
    \/ \E p \in DOMAIN projects : delete_project(p)
    \/ \E p \in DOMAIN projects, t \in TitleInputs : new_task(p, t)
    \/ \E p \in DOMAIN projects, d \in DurationInputs : log_study_session(p, d)
    \/ \E p \in DOMAIN projects, t \in TextInputs : add_project_note(p, t)
    \/ \E p \in DOMAIN projects, t \in TextInputs : add_comment(p, t)
    \/ \E p \in DOMAIN projects, up \in ProjectUploadInputs, token \in TokenInputs :
          upload_file(p, up, token)
    \/ \E p \in DOMAIN projects, f \in FileIds : download_file(p, f)
    \/ \E p \in DOMAIN projects, f \in FileIds, remove_ok \in BOOLEAN : delete_file(p, f, remove_ok)
    \/ \E q \in QueryInputs : search(q, "all")

SpecProject == FilesInit /\ [][ProjectNext]_vars

\* ---------------------------------------------------------------- two projects
\* The state after two users have each created a project and logged out: the file
\* handlers are called with the id of one project and the id of a file of the other.
CrossInit ==
    /\ users = << [ email |-> <<"a", "x">> ], [ email |-> <<"b", "x">> ] >>
    /\ projects = << [ user_id |-> 1, title |-> "T" ], [ user_id |-> 2, title |-> "T" ] >>
    /\ collaborators = << >>
    /\ activity = << ActivityRow(1, "created", "project", 1, <<"Created project", "T">>, 1),
                     ActivityRow(2, "created", "project", 2, <<"Created project", "T">>, 2) >>
    /\ current_user = NULL
    /\ now = 1
    /\ response = Redirect("You have been logged out.", "index", NULL)
    /\ files = << >>
    /\ storage = << >>
    /\ comments = << >>
    /\ tasks = << >>
    /\ notes = << >>
    /\ study_sessions = << >>
    /\ last_id = [ project |-> 2, file |-> 0, task |-> 0, note |-> 0, session |-> 0 ]
    /\ requests = [ r \in 1 .. MaxRequests |-> Idle ]

CrossNext ==
    \/ \E e \in FilesEmailInputs : login(e, TRUE)
    \/ logout
    \/ \E p \in DOMAIN projects, e \in FilesEmailInputs, r \in FilesRoleInputs :
          invite_collaborator(p, e, r)
    \/ \E c \in CollaborationIds : accept_collaboration(c)
    \/ \E p \in DOMAIN projects, up \in ProjectUploadInputs, token \in TokenInputs :
          upload_file(p, up, token)
    \/ \E p \in DOMAIN projects, f \in DOMAIN files : download_file(p, f)
    \/ \E p \in DOMAIN projects, f \in DOMAIN files, remove_ok \in BOOLEAN :
          delete_file(p, f, remove_ok)

SpecCross == CrossInit /\ [][CrossNext]_vars

\* ---------------------------------------------------------------- requests in flight
\* Workers serve requests at the same time. A handler that writes is a sequence of
\* steps: what it reads, its db.session.commit(), and the commit inside log_activity.
\* A step of one request can fall between two steps of another, and a worker can be
\* killed between two steps. A request that is turned away is served in one step, as
\* in the handlers above.
Request(pc, handler, user_id, project_id, entity_id, role, description) ==
    [ pc |-> pc, handler |-> handler, user_id |-> user_id, project_id |-> project_id,
      entity_id |-> entity_id, role |-> role, description |-> description ]

InFlight == { r \in DOMAIN requests : requests[r].pc # "idle" }

\* every request in flight finds room for its entry in the bounded activity table
LogRoom == Len(activity) + Cardinality(InFlight) < MaxLog

\* invite_collaborator up to the query for an existing row
invite_check(r, p, email, role) ==
    /\ requests[r] = Idle
    /\ current_user # NULL
    /\ IF /\ p \in DOMAIN projects
          /\ invite_caller_is_owner(p)
          /\ CollaboratorInviteForm_validate(email, role)
          /\ invite_find_user(email) # NULL
          /\ existing_collaborator(p, invite_find_user(email)) = NULL
       THEN /\ LogRoom
            /\ requests' =
                 [ requests EXCEPT ![r] =
                     Request("checked", "invite", current_user, p, invite_find_user(email),
                             role,
                             <<"Invited", users[invite_find_user(email)].email, "as", role>>) ]
            /\ UNCHANGED <<users, projects, collaborators, activity, current_user, now,
                           response, content, last_id>>
       ELSE invite_collaborator(p, email, role)

\* db.session.add(collaboration); db.session.commit(): the unique constraint is
\* checked against the rows committed by then, and nothing catches the IntegrityError
invite_commit(r) ==
    /\ requests[r].pc = "checked"
    /\ requests[r].handler = "invite"
    /\ LET req == requests[r]
           row == NewCollaboration(req.project_id, req.entity_id, req.role)
       IN  IF ~unique_project_collaborator(Append(collaborators, row))
           THEN /\ response' = [ flash |-> "", endpoint |-> "500", id |-> NULL ]
                /\ requests' = [ requests EXCEPT ![r] = Idle ]
                /\ UNCHANGED collaborators
           ELSE /\ collaborators' = Append(collaborators, row)
                /\ requests' = [ requests EXCEPT ![r].pc = "committed" ]
                /\ UNCHANGED response
    /\ UNCHANGED <<users, projects, activity, current_user, now, content, last_id>>

\* a handler would reach log_activity before its own commit
ready_to_log_uncommitted(r) == requests[r].pc # "idle"

\* a handler reaches log_activity after its db.session.commit() has returned
ready_to_log(r) == requests[r].pc = "committed"

\* log_activity(current_user.id, 'invited', ...) and the flash that follows
invite_log(r) ==
    /\ ready_to_log(r)
    /\ requests[r].handler = "invite"
    /\ activity' = log_activity(requests[r].user_id, "invited", "collaborator",
                                requests[r].entity_id, requests[r].description,
                                requests[r].project_id)
    /\ response' = Redirect("Invitation sent!", "project_detail", requests[r].project_id)
    /\ requests' = [ requests EXCEPT ![r] = Idle ]
    /\ UNCHANGED <<users, projects, collaborators, current_user, now, content, last_id>>

\* upload_file up to the commit of the ProjectFile row
upload_commit(r, p, up, token) ==
    /\ requests[r] = Idle
    /\ current_user # NULL
    /\ IF /\ p \in DOMAIN projects
          /\ can_user_edit(p, current_user)
          /\ upload_outcome(up, p, token).result = "saved"
       THEN LET info == upload_outcome(up, p, token)
            IN  /\ last_id.file < MaxFiles
                /\ LogRoom
                /\ storage' = saved_storage(info, p, up.image)
                /\ last_id' = [ last_id EXCEPT !.file = @ + 1 ]
                /\ files' = Insert(files, last_id.file + 1,
                                   NewProjectFile(info, p, current_user))
                /\ requests' =
                     [ requests EXCEPT ![r] =
                         Request("committed", "upload", current_user, p, last_id.file + 1,
                                 "", <<"Uploaded file", info.original_filename>>) ]
                /\ UNCHANGED <<users, projects, collaborators, activity, current_user, now,
                               response, comments, tasks, notes, study_sessions>>
       ELSE upload_file(p, up, token)

\* log_activity(current_user.id, 'uploaded', ...) and the flash that follows
upload_log(r) ==
    /\ ready_to_log(r)
    /\ requests[r].handler = "upload"
    /\ activity' = log_activity(requests[r].user_id, "uploaded", "file",
                                requests[r].entity_id, requests[r].description,
                                requests[r].project_id)
    /\ response' = Redirect("File uploaded successfully!", "project_detail",
                            requests[r].project_id)
    /\ requests' = [ requests EXCEPT ![r] = Idle ]
    /\ UNCHANGED <<users, projects, collaborators, current_user, now, content, last_id>>

\* the worker dies between two steps of a request: what was committed stays
worker_killed(r) ==
    /\ requests[r].pc # "idle"
    /\ requests' = [ requests EXCEPT ![r] = Idle ]
    /\ UNCHANGED <<users, projects, collaborators, activity, current_user, now, response,
                   content, last_id>>

ConcurrentNext ==
    \/ \E e \in FilesEmailInputs : login(e, TRUE)
    \/ logout
    \/ new_project("T")
    \/ \E r \in DOMAIN requests, p \in DOMAIN projects, e \in FilesEmailInputs :
          invite_check(r, p, e, "collaborator")
    \/ \E r \in DOMAIN requests : invite_commit(r)
    \/ \E r \in DOMAIN requests : invite_log(r)
    \/ \E r \in DOMAIN requests, p \in DOMAIN projects, up \in ProjectUploadInputs,
          token \in TokenInputs : upload_commit(r, p, up, token)
    \/ \E r \in DOMAIN requests : upload_log(r)
    \/ \E r \in DOMAIN requests : worker_killed(r)

SpecConcurrent == FilesInit /\ [][ConcurrentNext]_vars

\* ---------------------------------------------------------------- properties
\* the collaborator rows of the pair (project p, user u)
RowsOf(p, u) ==
    { i \in DOMAIN collaborators :
        collaborators[i].project_id = p /\ collaborators[i].user_id = u }

\* C1: for every project P and user U, can_user_access(P, U) holds exactly when U
\* owns P or a collaborator row of (P, U) has status 'accepted'; pending and declined
\* rows grant nothing and the role plays no part.
C1_AccessIffOwnerOrAccepted ==
    \A p \in DOMAIN projects, u \in DOMAIN users :
        can_user_access(p, u) <=>
            \/ projects[p].user_id = u
            \/ \E i \in RowsOf(p, u) : collaborators[i].status = "accepted"

\* an accepted viewer who is not the owner has access, a user with a declined or
\* pending row has none
C1_Witness ==
    \E p \in DOMAIN projects, u \in DOMAIN users :
        /\ projects[p].user_id # u
        /\ \E i \in RowsOf(p, u) :
              collaborators[i].status = "accepted" /\ collaborators[i].role = "viewer"
        /\ can_user_access(p, u)

\* C2: for every project P and user U, can_user_edit(P, U) holds exactly when U owns
\* P or U's row on P is accepted with role 'owner' or 'collaborator'; it is false for
\* an accepted viewer and for any pending or declined row.
C2_EditIffOwnerOrAcceptedEditor ==
    \A p \in DOMAIN projects, u \in DOMAIN users :
        can_user_edit(p, u) <=>
            \/ projects[p].user_id = u
            \/ \E i \in RowsOf(p, u) :
                  /\ collaborators[i].status = "accepted"
                  /\ collaborators[i].role \in { "owner", "collaborator" }

\* an accepted viewer who is not the owner can read but not edit
C2_Witness ==
    \E p \in DOMAIN projects, u \in DOMAIN users :
        /\ projects[p].user_id # u
        /\ \E i \in RowsOf(p, u) :
              collaborators[i].status = "accepted" /\ collaborators[i].role = "viewer"
        /\ can_user_access(p, u)
        /\ ~can_user_edit(p, u)

\* C3: invite_collaborator on project P by a user who is not P's owner, an accepted
\* collaborator included, is rejected and adds no collaborator row and no activity.
C3_OnlyOwnerInvites ==
    [][ \A p \in DOMAIN projects, e \in EmailInputs, r \in RoleInputs :
            (invite_collaborator(p, e, r) /\ projects[p].user_id # current_user)
                => /\ response'.flash = "Only the project owner can invite collaborators."
                   /\ UNCHANGED <<collaborators, activity>> ]_vars

\* an accepted collaborator with edit rights has just been refused an invite
C3_Witness ==
    /\ response.flash = "Only the project owner can invite collaborators."
    /\ response.id \in DOMAIN projects
    /\ projects[response.id].user_id # current_user
    /\ \E i \in RowsOf(response.id, current_user) :
          collaborators[i].status = "accepted" /\ collaborators[i].role = "collaborator"

\* at most one collaborator row for each (project, user) pair
AtMostOneRowPerPair ==
    \A p \in DOMAIN projects, u \in DOMAIN users : Cardinality(RowsOf(p, u)) <= 1

\* C4: an invite by the owner for a registered email whose user already has a row on
\* the project is rejected as 'already a collaborator', whatever that row's status,
\* and changes nothing; every step leaves at most one row per (project, user) pair.
C4_SecondInviteRejected ==
    [][ /\ \A p \in DOMAIN projects, e \in EmailInputs, r \in RoleInputs,
              u \in DOMAIN users :
              ( /\ invite_collaborator(p, e, r)
                /\ projects[p].user_id = current_user
                /\ CollaboratorInviteForm_validate(e, r)
                /\ users[u].email = e
                /\ RowsOf(p, u) # {} )
                => /\ response'.flash =
                          "This user is already a collaborator on this project."
                   /\ UNCHANGED <<collaborators, activity>>
        /\ AtMostOneRowPerPair' ]_vars

\* a second invite has just been refused where every row of the project is declined
C4_Witness ==
    /\ response.flash = "This user is already a collaborator on this project."
    /\ response.id \in DOMAIN projects
    /\ \E i \in DOMAIN collaborators : collaborators[i].project_id = response.id
    /\ \A i \in DOMAIN collaborators :
          collaborators[i].project_id = response.id
              => /\ collaborators[i].status = "declined"
                 /\ collaborators[i].user_id # projects[response.id].user_id

\* C5: accept_collaboration and decline_collaboration by a user other than the row's
\* invited user, the project owner included, fail and leave the row (status,
\* accepted_at) and the activity log as they were.
C5_OnlyInvitedUserAnswers ==
    [][ \A c \in DOMAIN collaborators :
            /\ (accept_collaboration(c) /\ collaborators[c].user_id # current_user)
                  => /\ response'.flash = "You can only accept your own invitations."
                     /\ UNCHANGED <<collaborators, activity>>
            /\ (decline_collaboration(c) /\ collaborators[c].user_id # current_user)
                  => /\ response'.flash = "You can only decline your own invitations."
                     /\ UNCHANGED <<collaborators, activity>> ]_vars

\* the project owner has just been refused the accept of another user's pending row
C5_Witness ==
    /\ response.flash = "You can only accept your own invitations."
    /\ collaborators # << >>
    /\ \A i \in DOMAIN collaborators :
          /\ collaborators[i].user_id # current_user
          /\ projects[collaborators[i].project_id].user_id = current_user
          /\ collaborators[i].status = "pending"

\* C6: a second accept by the invited user on a row that is already 'accepted' fails
\* and changes nothing: no new acceptance time, no further activity entry.
C6_SecondAcceptFails ==
    [][ \A c \in DOMAIN collaborators :
            ( /\ accept_collaboration(c)
              /\ collaborators[c].user_id = current_user
              /\ collaborators[c].status = "accepted" )
                => /\ response'.flash # "Collaboration invitation accepted!"
                   /\ UNCHANGED <<collaborators, activity>> ]_vars

\* C7: the only status changes of a collaborator row are pending -> accepted and
\* pending -> declined.
C7_OnlyPendingChanges ==
    [][ \A i \in DOMAIN collaborators :
            collaborators'[i].status # collaborators[i].status
                => collaborators[i].status = "pending" ]_vars

\* C8: no collaborator row names the owner of its own project (an invite of the
\* owner by their own email is rejected).
C8_OwnerHasNoRow ==
    \A i \in DOMAIN collaborators :
        collaborators[i].user_id # projects[collaborators[i].project_id].user_id

\* C9: an invite by the owner whose email matches a registered user's email up to
\* letter case, that user having no row on the project, creates the pending row for
\* that user.
C9_InviteIgnoresCase ==
    [][ \A p \in DOMAIN projects, e \in EmailInputs, r \in RoleInputs,
           u \in DOMAIN users :
            ( /\ invite_collaborator(p, e, r)
              /\ projects[p].user_id = current_user
              /\ CollaboratorInviteForm_validate(e, r)
              /\ users[u].email = Lower(e)
              /\ RowsOf(p, u) = {} )
                => /\ response'.flash # "User with this email address not found."
                   /\ collaborators' = Append(collaborators, NewCollaboration(p, u, r)) ]_vars

\* no user with a pending row has access to the row's project
PendingGrantsNoAccess ==
    \A i \in DOMAIN collaborators :
        collaborators[i].status = "pending"
            => ~can_user_access(collaborators[i].project_id, collaborators[i].user_id)

\* C10: a successful invite appends exactly one row (pending, the requested role, no
\* accepted_at) and exactly one activity entry ('invited', by the owner, on the
\* project); the invited user has no access to the project while the row is pending.
C10_InviteCreatesPendingRow ==
    [][ /\ \A p \in DOMAIN projects, e \in EmailInputs, r \in RoleInputs :
              (invite_collaborator(p, e, r) /\ response'.flash = "Invitation sent!")
                => \E u \in DOMAIN users :
                      /\ users[u].email = e
                      /\ collaborators' = Append(collaborators, NewCollaboration(p, u, r))
                      /\ Len(activity') = Len(activity) + 1
                      /\ SubSeq(activity', 1, Len(activity)) = activity
                      /\ activity'[Len(activity')].action = "invited"
                      /\ activity'[Len(activity')].user_id = projects[p].user_id
                      /\ activity'[Len(activity')].project_id = p
        /\ PendingGrantsNoAccess' ]_vars

\* C11: an invite by the owner with an email that matches no registered user, in any
\* letter case, fails with 'user not found' and leaves the collaborator rows and the
\* activity log as they were.
C11_UnknownEmailRejected ==
    [][ \A p \in DOMAIN projects, e \in EmailInputs, r \in RoleInputs :
            ( /\ invite_collaborator(p, e, r)
              /\ projects[p].user_id = current_user
              /\ CollaboratorInviteForm_validate(e, r)
              /\ \A u \in DOMAIN users : users[u].email # Lower(e) )
                => /\ response'.flash = "User with this email address not found."
                   /\ UNCHANGED <<collaborators, activity>> ]_vars

\* an invite has just failed with 'user not found' where nobody is registered under
\* the address b x, the only one offered in two letter cases
C11_Witness ==
    /\ response.flash = "User with this email address not found."
    /\ \A u \in DOMAIN users : users[u].email # <<"b", "x">>
    /\ collaborators = << >>

\* C19: get_collaborators starts with the owner (role 'owner', status 'accepted'),
\* followed by exactly the accepted rows of the project, each once and in stored
\* order; pending and declined rows never appear.
C19_OwnerThenAcceptedRows ==
    \A p \in DOMAIN projects :
        LET gc == get_collaborators(p)
            acc == { i \in DOMAIN collaborators :
                        /\ collaborators[i].project_id = p
                        /\ collaborators[i].status = "accepted" }
        IN  /\ gc[1] = [ user |-> projects[p].user_id, role |-> "owner",
                         status |-> "accepted" ]
            /\ Len(gc) = 1 + Cardinality(acc)
            /\ \A k \in 2 .. Len(gc) : gc[k].status = "accepted"
            /\ \A i \in acc :
                  Cardinality({ k \in 2 .. Len(gc) :
                                  /\ gc[k].user = collaborators[i].user_id
                                  /\ gc[k].role = collaborators[i].role }) = 1
            /\ \A k1, k2 \in 2 .. Len(gc) :
                  k1 < k2 =>
                    \E i1, i2 \in acc :
                        /\ i1 < i2
                        /\ gc[k1].user = collaborators[i1].user_id
                        /\ gc[k2].user = collaborators[i2].user_id

\* a project whose list is the owner and one accepted collaborator while another row
\* of the project is not accepted
C19_Witness ==
    \E p \in DOMAIN projects :
        /\ Len(get_collaborators(p)) = 2
        /\ get_collaborators(p)[2].user # projects[p].user_id
        /\ \E i \in DOMAIN collaborators :
              collaborators[i].project_id = p /\ collaborators[i].status # "accepted"

\* ---------------------------------------------------------------- files properties
\* the rule of the upload allow-list: what follows the last '.' of the name, in
\* lower case, is one of ALLOWED_EXTENSIONS; a name without '.' has no extension
ExtensionAllowed(f) ==
    \E i \in DOMAIN f :
        /\ f[i] = "."
        /\ \A j \in (i + 1) .. Len(f) : f[j] # "."
        /\ Lower(SubSeq(f, i + 1, Len(f))) \in ALLOWED_EXTENSIONS

\* the uploads of a file whose extension is not in the allow-list
DisallowedUploads == { up \in UploadInputs : ~ExtensionAllowed(up.filename) }

\* C12: an upload of a file whose extension is not in the allow-list (.exe, a name
\* without extension) is rejected by whoever sends it: no ProjectFile row is added,
\* no bytes are written and no ActivityLog entry is added.
C12_DisallowedTypeRejected ==
    [][ \A p \in ProjectIds, up \in DisallowedUploads, token \in TokenInputs :
            upload_file(p, up, token)
                => /\ UNCHANGED <<files, storage, activity, last_id>>
                   /\ response'.flash # "File uploaded successfully!" ]_vars

\* a user with edit rights has just had an upload turned down by the form
C12_Witness ==
    \E p \in DOMAIN projects :
        /\ can_user_edit(p, current_user)
        /\ response = Redirect("", "project_detail", p)
        /\ files = << >> /\ storage = << >>

\* every ProjectFile row holds at most MAX_CONTENT_LENGTH bytes
FileSizesWithinLimit ==
    \A f \in DOMAIN files : files[f].file_size <= MAX_CONTENT_LENGTH

\* the uploads of a file of more than 16 MiB
OversizeUploads == { up \in UploadInputs : up.size > 16 * 1024 * 1024 }

\* C13: an upload whose file exceeds 16 MiB is rejected: from a user with edit rights
\* it ends as 413 Request Entity Too Large, from anyone it adds no row, no bytes and
\* no log entry; every ProjectFile row has file_size <= 16 MiB.
C13_OversizeRejected ==
    [][ /\ \A p \in ProjectIds, up \in OversizeUploads, token \in TokenInputs :
              upload_file(p, up, token)
                  => /\ UNCHANGED <<files, storage, activity, last_id>>
                     /\ ( p \in DOMAIN projects /\ can_user_edit(p, current_user) )
                            => response'.endpoint = "413"
        /\ FileSizesWithinLimit' ]_vars

\* a request has just been refused as too large while the project holds a file of
\* the largest size a request can carry
C13_Witness ==
    /\ response.endpoint = "413"
    /\ \E f \in DOMAIN files : files[f].file_size = 16777016

persisted == <<users, projects, collaborators, activity, files, storage, comments,
               tasks, notes, study_sessions, last_id>>

\* the rows of any table that belong to project p
RowsOfProject(t, p) == { k \in DOMAIN t : t[k].project_id = p }

\* C15: when the owner deletes project P the delete succeeds in every reachable
\* state, with collaborator rows or comments as well, and afterwards no Task,
\* ProjectNote, StudySession, ProjectFile, ProjectCollaborator or ProjectComment row
\* of P remains.
C15_OwnerDeleteCascades ==
    [][ \A p \in DOMAIN projects :
            ( delete_project(p) /\ projects[p].user_id = current_user )
                => /\ p \notin DOMAIN projects'
                   /\ response'.flash = "Project deleted successfully!"
                   /\ RowsOfProject(tasks', p) = {}
                   /\ RowsOfProject(notes', p) = {}
                   /\ RowsOfProject(study_sessions', p) = {}
                   /\ RowsOfProject(files', p) = {}
                   /\ RowsOfProject(collaborators', p) = {}
                   /\ RowsOfProject(comments', p) = {} ]_vars

\* user u holds an accepted row of role 'viewer' on project p and does not own it
IsAcceptedViewer(p, u) ==
    /\ projects[p].user_id # u
    /\ \E i \in DOMAIN collaborators :
          /\ collaborators[i].project_id = p
          /\ collaborators[i].user_id = u
          /\ collaborators[i].status = "accepted"
          /\ collaborators[i].role = "viewer"

\* C16: for an accepted viewer V of P every mutating operation on P (upload_file,
\* delete_file, add_comment, new_task, add_project_note, edit_project,
\* delete_project) is rejected and leaves the records unchanged, while
\* project_detail and download_file on P succeed.
C16_ViewerIsReadOnly ==
    [][ \A p \in DOMAIN projects :
            IsAcceptedViewer(p, current_user) =>
                /\ ( \/ \E up \in ProjectUploadInputs, token \in TokenInputs :
                           upload_file(p, up, token)
                     \/ \E f \in FileIds, remove_ok \in BOOLEAN : delete_file(p, f, remove_ok)
                     \/ \E t \in TextInputs : add_comment(p, t)
                     \/ \E t \in TitleInputs : new_task(p, t)
                     \/ \E t \in TextInputs : add_project_note(p, t)
                     \/ \E t \in TitleInputs : edit_project(p, t)
                     \/ delete_project(p) )
                      => UNCHANGED persisted
                /\ project_detail(p) => response'.endpoint = "project_detail.html"
                /\ \A f \in DOMAIN files :
                      ( /\ download_file(p, f)
                        /\ files[f].project_id = p
                        /\ files[f].file_path \in DOMAIN storage )
                          => response'.endpoint = "send_file" ]_vars

\* C17: the ActivityLog is append-only: no step deletes an entry or changes a field
\* of one, the log only grows at its end.
C17_LogAppendOnly ==
    [][ /\ Len(activity') >= Len(activity)
        /\ \A i \in DOMAIN activity : activity'[i] = activity[i] ]_vars

\* C18: a failed access test leaves the persisted state as it was: a step that
\* changes the persisted state is no upload_file or delete_file by a user without
\* can_user_edit, no add_comment or download_file by a user without
\* can_user_access and no invite_collaborator by a user who is not the owner.
C18_AccessFailureChangesNothing ==
    [][ \/ UNCHANGED persisted
        \/ \A p \in DOMAIN projects :
              /\ ~( /\ ~can_user_edit(p, current_user)
                    /\ \/ \E up \in ProjectUploadInputs, token \in TokenInputs :
                             upload_file(p, up, token)
                       \/ \E f \in FileIds, remove_ok \in BOOLEAN :
                             delete_file(p, f, remove_ok) )
              /\ ~( /\ ~can_user_access(p, current_user)
                    /\ \/ \E t \in TextInputs : add_comment(p, t)
                       \/ \E f \in FileIds : download_file(p, f) )
              /\ ~( /\ projects[p].user_id # current_user
                    /\ \E e \in FilesEmailInputs, r \in FilesRoleInputs :
                           invite_collaborator(p, e, r) ) ]_vars

\* a user has just been refused the deletion of a file, and the project holds a file
\* with its bytes, a comment and a collaborator row
C18_Witness ==
    /\ response.flash = "You do not have permission to delete files from this project."
    /\ \E f \in DOMAIN files :
          files[f].project_id = response.id /\ files[f].file_path \in DOMAIN storage
    /\ \E i \in DOMAIN comments : comments[i].project_id = response.id
    /\ \E i \in DOMAIN collaborators : collaborators[i].project_id = response.id

\* C20: a project's user_id is the user who created it and no step changes it.
C20_OwnerFixedAtCreation ==
    [][ /\ \A p \in DOMAIN projects \cap DOMAIN projects' :
              projects'[p].user_id = projects[p].user_id
        /\ \A p \in DOMAIN projects' \ DOMAIN projects :
              /\ current_user \in DOMAIN users
              /\ projects'[p].user_id = current_user ]_vars

\* a project that was edited while another user has an accepted row on it
C20_Witness ==
    \E p \in DOMAIN projects :
        /\ \E i \in DOMAIN activity :
              activity[i].action = "updated" /\ activity[i].project_id = p
        /\ \E i \in DOMAIN collaborators :
              /\ collaborators[i].project_id = p
              /\ collaborators[i].status = "accepted"
              /\ collaborators[i].user_id # projects[p].user_id

\* C22: every permitted mutation of a project is recorded: a step that changes a row
\* of a project, of its collaborators or of what it contains appends one
\* ActivityLog entry of the acting user.
C22_EveryMutationLogged ==
    [][ ( <<projects, collaborators, files, comments, tasks, notes, study_sessions>>'
            # <<projects, collaborators, files, comments, tasks, notes, study_sessions>> )
            => /\ Len(activity') = Len(activity) + 1
               /\ activity'[Len(activity')].user_id = current_user ]_vars

\* C23: creating a task, a note or a study session on project P is permitted for a
\* user exactly when can_user_edit permits that user to edit P.
C23_ContentFollowsEditRight ==
    [][ \A p \in DOMAIN projects :
            /\ new_task(p, "T") => ( can_user_edit(p, current_user) <=> tasks' # tasks )
            /\ add_project_note(p, "c")
                  => ( can_user_edit(p, current_user) <=> notes' # notes )
            /\ log_study_session(p, 30)
                  => ( can_user_edit(p, current_user)
                          <=> study_sessions' # study_sessions ) ]_vars

\* C24: when os.remove raises on bytes that exist, delete_file still removes the
\* ProjectFile row and does not end in a fatal error.
C24_RemoveFailureTolerated ==
    [][ \A p \in DOMAIN projects, f \in DOMAIN files :
            ( /\ delete_file(p, f, FALSE)
              /\ can_user_edit(p, current_user)
              /\ files[f].project_id = p
              /\ files[f].file_path \in DOMAIN storage )
                => /\ f \notin DOMAIN files'
                   /\ response'.endpoint # "500" ]_vars

AllowedUploads == { up \in UploadInputs : ExtensionAllowed(up.filename) }

\* C26: a stored upload lies under the directory of its own project, under a
\* generated name that is neither the name the user sent nor the row's
\* original_filename and that keeps the lower-cased extension of the name the user
\* sent; no two ProjectFile rows share a storage path.
C26_StorageNames ==
    [][ \A p \in DOMAIN projects, up \in AllowedUploads, token \in TokenInputs :
            ( upload_file(p, up, token) /\ files' # files )
                => LET row == files'[last_id'.file]
                   IN  /\ row.file_path = << "uploads", p, row.filename >>
                       /\ row.file_path \in DOMAIN storage'
                       /\ row.filename # up.filename
                       /\ row.filename # row.original_filename
                       /\ EndsWith(row.filename,
                                   <<".">> \o Lower(AfterLastDot(up.filename)))
                       /\ \A g \in DOMAIN files' \ { last_id'.file } :
                             files'[g].file_path # row.file_path ]_vars

\* the uploads that declare an image of which no thumbnail can be made
FailedThumbnailUploads ==
    { up \in UploadInputs : up.content_type = "image/png" /\ ~up.image }

\* C27: an upload with an image MIME type whose thumbnail cannot be made does not
\* fail: the ProjectFile row and the ActivityLog entry are created as for any
\* saved file, and the upload writes the bytes of the file and no thumbnail.
C27_ThumbnailFailureTolerated ==
    [][ \A p \in DOMAIN projects, up \in FailedThumbnailUploads, token \in TokenInputs :
            ( upload_file(p, up, token) /\ can_user_edit(p, current_user) )
                => LET info == file_info(up, p, token)
                   IN  /\ response'.flash = "File uploaded successfully!"
                       /\ files' = Insert(files, last_id.file + 1,
                                          [ filename |-> info.filename,
                                            original_filename |-> info.original_filename,
                                            file_size |-> info.file_size,
                                            file_type |-> "image/png",
                                            file_path |-> info.file_path,
                                            project_id |-> p,
                                            uploaded_by |-> current_user ])
                       /\ Len(activity') = Len(activity) + 1
                       /\ activity'[Len(activity')].action = "uploaded"
                       /\ activity'[Len(activity')].entity_id = last_id.file + 1
                       /\ storage' = Insert(storage, info.file_path, info.file_size) ]_vars

\* an image has just been uploaded and its bytes are in the folder without a
\* thumbnail next to them
C27_Witness ==
    /\ response.flash = "File uploaded successfully!"
    /\ \E f \in DOMAIN files :
          /\ files[f].file_type = "image/png"
          /\ files[f].file_path \in DOMAIN storage
          /\ ThumbPath(files[f].project_id, files[f].filename) \notin DOMAIN storage
          /\ \E i \in DOMAIN activity :
                activity[i].action = "uploaded" /\ activity[i].entity_id = f

\* the projects user u owns or holds an accepted collaboration on
OwnedOrAccepted(u) ==
    { p \in DOMAIN projects :
        \/ projects[p].user_id = u
        \/ \E i \in DOMAIN collaborators :
              /\ collaborators[i].project_id = p
              /\ collaborators[i].user_id = u
              /\ collaborators[i].status = "accepted" }

\* C29: search returns only projects, tasks and files of projects the user owns or
\* has an accepted collaboration on: nothing of a project on which the user's
\* collaboration is pending or declined, nor of an unrelated project.
C29_SearchScope ==
    \A u \in DOMAIN users, q \in QueryInputs, ft \in FilterInputs :
        LET results == search_results(u, q, ft)
        IN  /\ results.projects \subseteq OwnedOrAccepted(u)
            /\ \A t \in results.tasks : tasks[t].project_id \in OwnedOrAccepted(u)
            /\ \A f \in results.files : files[f].project_id \in OwnedOrAccepted(u)

\* a user whose collaboration is not accepted has just searched for what the owner's
\* search finds as a project and a task, and finds nothing
C29_Witness ==
    /\ response.endpoint = "search.html"
    /\ \E p \in DOMAIN projects :
          /\ \E i \in DOMAIN collaborators :
                /\ collaborators[i].project_id = p
                /\ collaborators[i].user_id = current_user
                /\ collaborators[i].status # "accepted"
          /\ projects[p].user_id # current_user
          /\ search_results(projects[p].user_id, <<"t">>, "all").projects = { p }
          /\ search_results(projects[p].user_id, <<"t">>, "all").tasks # {}
          /\ search_results(current_user, <<"t">>, "all")
                = [ projects |-> {}, tasks |-> {}, files |-> {} ]

\* C28: download_file and delete_file act only on a file of the project whose
\* access was checked: called with a project and a file of another project they
\* serve nothing and delete nothing, so a file is served only to a user with access
\* to its project and deleted only by a user with edit rights on its project.
C28_FileLookupByProject ==
    [][ \A p \in DOMAIN projects, f \in DOMAIN files :
            /\ ( download_file(p, f) /\ files[f].project_id # p )
                  => response'.endpoint # "send_file"
            /\ ( download_file(p, f) /\ response'.endpoint = "send_file" )
                  => can_user_access(files[f].project_id, current_user)
            /\ \A remove_ok \in BOOLEAN :
                  /\ ( delete_file(p, f, remove_ok) /\ files[f].project_id # p )
                        => UNCHANGED <<files, storage, activity>>
                  /\ ( delete_file(p, f, remove_ok) /\ f \notin DOMAIN files' )
                        => can_user_edit(files[f].project_id, current_user) ]_vars

\* a user has just got 404 for a request that named an own project and a file of a
\* project the user has no access to; the file and its bytes are there
C28_Witness ==
    /\ response = NotFound404
    /\ current_user # NULL
    /\ \E f \in DOMAIN files :
          /\ ~can_user_access(files[f].project_id, current_user)
          /\ files[f].file_path \in DOMAIN storage
          /\ \E p \in DOMAIN projects : projects[p].user_id = current_user

\* C21: when two invitations of the same user to the same project have both passed
\* the query for an existing row, the commit of the second leaves one row in the
\* table and that request is answered 'already a collaborator'.
C21_ConcurrentInviteLoserRejected ==
    [][ \A r \in DOMAIN requests :
          ( /\ invite_commit(r)
            /\ existing_collaborator(requests[r].project_id, requests[r].entity_id) # NULL )
              => /\ unique_project_collaborator(collaborators')
                 /\ collaborators' = collaborators
                 /\ response'.flash = "This user is already a collaborator on this project." ]_vars

\* the committed mutation that a log entry tells of
LogBacked(e, ps, rows, fs) ==
    /\ e.action = "created" => e.entity_id \in DOMAIN ps
    /\ e.action = "invited" =>
          \E c \in DOMAIN rows :
              rows[c].project_id = e.project_id /\ rows[c].user_id = e.entity_id
    /\ e.action = "uploaded" =>
          e.entity_id \in DOMAIN fs /\ fs[e.entity_id].project_id = e.project_id

\* C25: a log entry is written only after the mutation it tells of was committed: the
\* step that appends an 'invited' or 'uploaded' entry is the last one of a request
\* whose row was committed by an earlier step, and in every state, a worker having
\* been killed or not, every entry has its committed mutation.
C25_LogOnlyAfterCommit ==
    [][ /\ \A i \in DOMAIN activity' : LogBacked(activity'[i], projects', collaborators', files')
        /\ activity' # activity =>
             LET e == activity'[Len(activity')]
             IN  /\ activity' = Append(activity, e)
                 /\ \/ e.action = "created" /\ e.entity_id \notin DOMAIN projects
                    \/ /\ LogBacked(e, projects, collaborators, files)
                       /\ \E r \in DOMAIN requests :
                            /\ requests[r].pc = "committed"
                            /\ requests'[r] = Idle
                            /\ requests[r].entity_id = e.entity_id
                            /\ requests[r].project_id = e.project_id
                            /\ requests[r].user_id = e.user_id ]_vars

\* no request is in flight, one invitation was committed and logged, and another was
\* committed by a worker that was killed before log_activity: its row has no entry
C25_Witness ==
    /\ InFlight = {}
    /\ \E i \in DOMAIN activity : activity[i].action = "invited"
    /\ \E c \in DOMAIN collaborators :
          \A i \in DOMAIN activity :
              ~( /\ activity[i].action = "invited"
                 /\ activity[i].entity_id = collaborators[c].user_id
                 /\ activity[i].project_id = collaborators[c].project_id )
====
